---------------------------- MODULE Spec2Model ----------------------------
(***************************************************************************)
(* FlexiGrow backend (src/server.js): the cached SQL Server connection     *)
(* (getConnection) and the GET /api/data handler: input validation, table  *)
(* discovery, column classification, query construction and the mapping of *)
(* failures to responses.                                                  *)
(*                                                                         *)
(* JavaScript strings are TLA+ strings; String.prototype.includes,         *)
(* toLowerCase, template literals and T-SQL LIKE are computed character by *)
(* character.  undefined/null string values are the empty string, which is *)
(* falsy in JavaScript as they are.                                        *)
(***************************************************************************)
EXTENDS Integers, Sequences, FiniteSets, TLC

(***************************************************************************)
(* Bounds of the model.                                                    *)
(***************************************************************************)
\* number of /api/data requests the clients send (they may overlap)
MaxRequests == 2
\* number of INFORMATION_SCHEMA.TABLES rows of the database
MaxTables == 2
\* number of columns of the wide table of the database
WideCount == 52

(***************************************************************************)
(* Strings.                                                                *)
(***************************************************************************)
UpperCase == "ABCDEFGHIJKLMNOPQRSTUVWXYZ"

LowerCase == "abcdefghijklmnopqrstuvwxyz"

Digits == "0123456789"

CharAt(s, i) == SubSeq(s, i, i)

Rest(s) == SubSeq(s, 2, Len(s))

\* String.prototype.includes: case-sensitive substring test
Includes(s, p) ==
    \E i \in 1..(Len(s) - Len(p) + 1) : SubSeq(s, i, i + Len(p) - 1) = p

LowerChar(c) ==
    IF \E i \in 1..Len(UpperCase) : CharAt(UpperCase, i) = c
    THEN CharAt(LowerCase, CHOOSE i \in 1..Len(UpperCase) : CharAt(UpperCase, i) = c)
    ELSE c

RECURSIVE ToLower(_)
\* String.prototype.toLowerCase
ToLower(s) ==
    IF s = "" THEN "" ELSE LowerChar(CharAt(s, 1)) \o ToLower(Rest(s))

RECURSIVE Decimal(_)
\* a number's decimal digits, as a template literal writes it
Decimal(n) ==
    IF n < 10 THEN CharAt(Digits, n + 1)
    ELSE Decimal(n \div 10) \o CharAt(Digits, (n % 10) + 1)

RECURSIVE Join(_, _)
\* Array.prototype.join
Join(seq, sep) ==
    IF seq = <<>> THEN ""
    ELSE IF Len(seq) = 1 THEN seq[1]
    ELSE seq[1] \o sep \o Join(Tail(seq), sep)

RECURSIVE Filter(_, _)
\* Array.prototype.filter with the predicate given as the set of kept values
Filter(seq, keep) ==
    IF seq = <<>> THEN <<>>
    ELSE IF seq[1] \in keep THEN <<seq[1]>> \o Filter(Tail(seq), keep)
    ELSE Filter(Tail(seq), keep)

\* Array.prototype.slice(0, n)
Slice(seq, n) == SubSeq(seq, 1, IF Len(seq) < n THEN Len(seq) ELSE n)

Range(seq) == {seq[i] : i \in 1..Len(seq)}

RECURSIVE Like(_, _)
\* T-SQL  s LIKE p  under the catalog's case-insensitive collation:
\* % is any run of characters, _ is any one character
Like(s, p) ==
    IF p = "" THEN s = ""
    ELSE IF CharAt(p, 1) = "%" THEN Like(s, Rest(p)) \/ (s # "" /\ Like(Rest(s), p))
    ELSE /\ s # ""
         /\ CharAt(p, 1) = "_" \/ LowerChar(CharAt(p, 1)) = LowerChar(CharAt(s, 1))
         /\ Like(Rest(s), Rest(p))

\* the collation's order of characters (punctuation, digits, letters)
CollationOrder == " []_0123456789abcdefghijklmnopqrstuvwxyz"

CharRank(c) ==
    CHOOSE i \in 1..Len(CollationOrder) : CharAt(CollationOrder, i) = LowerChar(c)

RECURSIVE NameLeq(_, _)
\* a <= b in ORDER BY t.TABLE_NAME
NameLeq(a, b) ==
    IF a = "" THEN TRUE
    ELSE IF b = "" THEN FALSE
    ELSE IF CharRank(CharAt(a, 1)) # CharRank(CharAt(b, 1))
         THEN CharRank(CharAt(a, 1)) < CharRank(CharAt(b, 1))
    ELSE NameLeq(Rest(a), Rest(b))

(***************************************************************************)
(* The database catalog: INFORMATION_SCHEMA.TABLES rows, each with its     *)
(* INFORMATION_SCHEMA.COLUMNS rows in ORDINAL_POSITION order.              *)
(***************************************************************************)
Col(n, t) == [COLUMN_NAME |-> n, DATA_TYPE |-> t]

Tbl(s, n, ty, cols) ==
    [TABLE_SCHEMA |-> s, TABLE_NAME |-> n, TABLE_TYPE |-> ty, COLUMNS |-> cols]

WideColumns ==
    [i \in 1..WideCount |->
        IF i = WideCount THEN Col("EntryDate", "datetime")
        ELSE IF i = WideCount - 1 THEN Col("Income", "money")
        ELSE Col("Col" \o Decimal(i), "int")]

BusinessWrittenTable ==
    Tbl("dbo", "BusinessWritten", "BASE TABLE",
        <<Col("WrittenDate", "datetime"), Col("LoanID", "int"),
          Col("ClientID", "int"), Col("Premium", "decimal")>>)

StaffTable == Tbl("hr", "Staff", "BASE TABLE", <<Col("Id", "int"), Col("Name", "varchar")>>)

TablePool ==
    { BusinessWrittenTable,
      Tbl("dbo", "vw_Business_Written", "VIEW",
          <<Col("Id", "int"), Col("Stamp", "date"), Col("CreatedDate", "datetime2")>>),
      Tbl("dbo", "AutoLoan", "BASE TABLE",
          <<Col("Id", "int"), Col("Opened", "time"), Col("Closed", "date")>>),
      Tbl("dbo", "Accounts", "BASE TABLE",
          <<Col("LoanClientIDPremium", "varchar"), Col("Note", "varchar")>>),
      Tbl("dbo", "Ledger", "BASE TABLE",
          <<Col("LoanID", "int"), Col("ClientID", "int"), Col("Premium", "decimal")>>),
      Tbl("sales", "PremiumRates", "BASE TABLE",
          <<Col("Rate", "decimal"), Col("Valid", "date")>>),
      Tbl("arch", "Policy]Archive", "BASE TABLE",
          <<Col("Ref[1]", "int"), Col("User]Name", "varchar")>>),
      Tbl("dbo", "TransactionWide", "BASE TABLE", WideColumns),
      StaffTable }

\* the databases the server may be deployed against
Catalogs == {c \in SUBSET TablePool : Cardinality(c) <= MaxTables}

\* three of them: no table at all, no candidate table, the report's table
CoreCatalogs == {{}, {StaffTable}, {BusinessWrittenTable}}

(***************************************************************************)
(* Table discovery: tableSearchQuery, evaluated on a catalog.              *)
(***************************************************************************)
\* the rows of  TABLES t INNER JOIN COLUMNS c
JoinRows(cat) ==
    UNION {{[t |-> t, c |-> t.COLUMNS[i]] : i \in 1..Len(t.COLUMNS)} : t \in cat}

\* c.COLUMN_NAME LIKE ... : the three groups of the "key columns" condition
LoanIdLike(n) == Like(n, "%Loan%ID%") \/ Like(n, "%LoanId%") \/ Like(n, "%Loan_ID%")

ClientIdLike(n) ==
    Like(n, "%Client%ID%") \/ Like(n, "%ClientId%") \/ Like(n, "%Client_ID%")

PremiumLike(n) == Like(n, "%Premium%") \/ Like(n, "%Commission%")

\* t.TABLE_NAME LIKE ... : the table-name condition
NameMatches(n) ==
    \/ Like(n, "%Business%Written%")
    \/ Like(n, "%Business_Written%")
    \/ Like(n, "%BusinessWritten%")
    \/ Like(n, "%Loan%")
    \/ Like(n, "%Policy%")
    \/ Like(n, "%Transaction%")

\* the WHERE clause on one joined row; AND binds tighter than OR, so the
\* BASE TABLE test and the three column tests go together, on the same row
WhereClause(row) ==
    \/ /\ row.t.TABLE_TYPE = "BASE TABLE"
       /\ LoanIdLike(row.c.COLUMN_NAME)
       /\ ClientIdLike(row.c.COLUMN_NAME)
       /\ PremiumLike(row.c.COLUMN_NAME)
    \/ NameMatches(row.t.TABLE_NAME)

\* SELECT DISTINCT t.TABLE_SCHEMA, t.TABLE_NAME
Candidates(cat) ==
    {[TABLE_SCHEMA |-> row.t.TABLE_SCHEMA, TABLE_NAME |-> row.t.TABLE_NAME] :
        row \in {x \in JoinRows(cat) : WhereClause(x)}}

\* variant: a CASE that ranks every name alike
OrderRankFlat(n) == 4

\* the CASE expression of ORDER BY
OrderRank(n) ==
    IF Like(n, "%Business%Written%") THEN 1
    ELSE IF Like(n, "%Business_Written%") THEN 2
    ELSE IF Like(n, "%BusinessWritten%") THEN 3
    ELSE 4

\* row a may come before row b under ORDER BY CASE ..., t.TABLE_NAME
RowLeq(a, b) ==
    \/ OrderRank(a.TABLE_NAME) < OrderRank(b.TABLE_NAME)
    \/ /\ OrderRank(a.TABLE_NAME) = OrderRank(b.TABLE_NAME)
       /\ NameLeq(a.TABLE_NAME, b.TABLE_NAME)

\* the recordsets tableSearchQuery may return: the candidates, in any order
\* that ORDER BY allows (rows equal in both sort keys come in either order)
TableSearchResults(cat) ==
    LET cand == Candidates(cat)
        n == Cardinality(cand)
    IN  {rs : rs \in {x \in [1..n -> cand] :
            /\ \A i, j \in 1..n : i # j => x[i] # x[j]
            /\ \A i, j \in 1..n : i < j => RowLeq(x[i], x[j])}}

\* schema = tableInfo.TABLE_SCHEMA || 'dbo'
SchemaOf(tableInfo) ==
    IF tableInfo.TABLE_SCHEMA # "" THEN tableInfo.TABLE_SCHEMA ELSE "dbo"

\* the column query: WHERE TABLE_SCHEMA = @schema AND TABLE_NAME = @table
\* ORDER BY ORDINAL_POSITION, compared under the catalog's collation
ColumnsRecordset(cat, schema, tableName) ==
    LET hit == {t \in cat : /\ ToLower(t.TABLE_SCHEMA) = ToLower(schema)
                            /\ ToLower(t.TABLE_NAME) = ToLower(tableName)}
    IN  IF hit = {} THEN <<>> ELSE (CHOOSE t \in hit : TRUE).COLUMNS

(***************************************************************************)
(* Column classification.                                                  *)
(***************************************************************************)
\* columns = columnsResult.recordset.map(r => r.COLUMN_NAME)
ColumnNames(recordset) == [i \in 1..Len(recordset) |-> recordset[i].COLUMN_NAME]

\* the predicate of dateColumns = columns.filter(...)
DateNamed(col) ==
    \/ Includes(ToLower(col), "date")
    \/ Includes(ToLower(col), "written")
    \/ Includes(ToLower(col), "created")
    \/ Includes(ToLower(col), "time")

\* Array.prototype.find over names: the first kept one, or undefined
Find(seq, keep) == IF Filter(seq, keep) = <<>> THEN "" ELSE Filter(seq, keep)[1]

\* variant: the date column by data type alone
DateColumnByTypeOnly(recordset) ==
    LET columns == ColumnNames(recordset)
        rows == Range(recordset)
    IN  Find(columns, {r.COLUMN_NAME : r \in {x \in rows :
                Includes(x.DATA_TYPE, "date") \/ Includes(x.DATA_TYPE, "time")}})

\* Step 3 of the handler: dateColumn ("" when none is found)
DateColumn(recordset) ==
    LET columns == ColumnNames(recordset)
        rows == Range(recordset)
        dateColumns == Filter(columns, {c \in Range(columns) : DateNamed(c)})
        first == IF dateColumns # <<>> /\ dateColumns[1] # "" THEN dateColumns[1]
                 ELSE Find(columns, {c \in Range(columns) :
                        \E r \in rows : /\ r.COLUMN_NAME = c
                                        /\ Includes(r.DATA_TYPE, "date")})
        datetimeCol == Find(columns, {r.COLUMN_NAME : r \in {x \in rows :
                        Includes(x.DATA_TYPE, "date") \/ Includes(x.DATA_TYPE, "time")}})
    IN  IF first = "" /\ Len(columns) > 0 THEN datetimeCol ELSE first

reportColumnPatterns ==
    <<"date", "loan", "client", "user", "source", "premium", "amendment",
      "admin", "fee", "interest", "commission", "financed", "income">>

\* keyColumns = columns.filter(...)
KeyColumns(columns) ==
    Filter(columns, {c \in Range(columns) :
        \E i \in 1..Len(reportColumnPatterns) :
            Includes(ToLower(c), reportColumnPatterns[i])})

\* the row cap of both query forms, and the cap of the projection
RowCap == 1000

ProjectionCap == 50

\* variant: the projection without .slice(0, 50)
SelectColumnsUncapped(columns, dateColumn) ==
    LET keyColumns == KeyColumns(columns)
        all == <<dateColumn>>
               \o Filter(keyColumns, Range(keyColumns) \ {dateColumn})
               \o Filter(columns, Range(columns) \ ({dateColumn} \cup Range(keyColumns)))
    IN  Filter(all, Range(all) \ {""})

\* selectColumns: date column, then key columns, then the others;
\* .filter(Boolean).slice(0, 50)
SelectColumns(columns, dateColumn) ==
    LET keyColumns == KeyColumns(columns)
        all == <<dateColumn>>
               \o Filter(keyColumns, Range(keyColumns) \ {dateColumn})
               \o Filter(columns, Range(columns) \ ({dateColumn} \cup Range(keyColumns)))
    IN  Slice(Filter(all, Range(all) \ {""}), ProjectionCap)

(***************************************************************************)
(* Query construction.                                                     *)
(***************************************************************************)
\* selectColumns.map(col => `[${col}]`)
Bracket(name) == "[" \o name \o "]"

SelectList(selectColumns) ==
    Join([i \in 1..Len(selectColumns) |-> Bracket(selectColumns[i])], ", ")

\* the line break and indentation inside the template literals
Indent == " \n               "

Input(n, ty, v) == [name |-> n, type |-> ty, value |-> v]

\* variant: the dates written into the text instead of bound
DataQueryInlined(schema, tableName, dateColumn, selectColumns, startDate, endDate) ==
    [text |-> "SELECT TOP " \o Decimal(RowCap) \o " " \o SelectList(selectColumns)
              \o Indent \o "FROM " \o Bracket(schema) \o "." \o Bracket(tableName)
              \o (IF dateColumn # ""
                  THEN Indent \o "WHERE " \o Bracket(dateColumn) \o " BETWEEN '"
                       \o startDate \o "' AND '" \o endDate \o "'"
                       \o Indent \o "ORDER BY " \o Bracket(dateColumn) \o " DESC"
                  ELSE Indent \o "ORDER BY (SELECT NULL)"),
     inputs |-> <<>>]

\* Step 4 of the handler: the query text and the inputs bound on the request
DataQuery(schema, tableName, dateColumn, selectColumns, startDate, endDate) ==
    [text |-> "SELECT TOP " \o Decimal(RowCap) \o " " \o SelectList(selectColumns)
              \o Indent \o "FROM " \o Bracket(schema) \o "." \o Bracket(tableName)
              \o (IF dateColumn # ""
                  THEN Indent \o "WHERE " \o Bracket(dateColumn)
                       \o " BETWEEN @startDate AND @endDate"
                       \o Indent \o "ORDER BY " \o Bracket(dateColumn) \o " DESC"
                  ELSE Indent \o "ORDER BY (SELECT NULL)"),
     inputs |-> IF dateColumn # ""
                THEN <<Input("startDate", "Date", startDate),
                       Input("endDate", "Date", endDate)>>
                ELSE <<>>]

\* the query strings of the requests the clients send: startDate, endDate
\* ("" when the parameter is missing or empty)
RequestInputs ==
    { <<"2024-01-01", "2024-01-31">>, <<"", "2024-01-31">>,
      <<"2024-01-01", "">>, <<"", "">> }

(***************************************************************************)
(* Errors and responses.                                                   *)
(***************************************************************************)
\* an Error object; code "" is an error without a code field
Err(c, m) == [code |-> c, message |-> m]

\* lastError = null
NoError == Err("", "")

\* what sql.connect may reject with
ConnectErrors ==
    { Err("ELOGIN", "Login failed for user 'river_funder'."),
      Err("ESOCKET", "Failed to connect to 52.156.170.147:2433 - "
                     \o "ssl_choose_client_version:unsupported protocol") }

\* what request.query may reject with
QueryErrors ==
    { Err("EREQUEST", "Invalid object name 'dbo.BusinessWritten'."),
      Err("EREQUEST", "Incorrect syntax near ']'."),
      Err("ETIMEOUT", "Timeout: Request failed to complete in 30000ms") }

\* the error getConnection throws once every strategy has failed
ConnectionFailure(last) ==
    LET errorMessage == IF last.message # "" THEN last.message ELSE "Unknown error"
        isTLSError == \/ Includes(errorMessage, "unsupported protocol")
                      \/ Includes(errorMessage, "TLS")
                      \/ Includes(errorMessage, "SSL")
                      \/ Includes(errorMessage, "ssl_choose_client_version")
    IN  IF isTLSError
        THEN Err("", "TLS/SSL Error: Connection failed. Node.js 18 should have better "
                     \o "compatibility, but SQL Server may need configuration updates. "
                     \o "Original error: " \o errorMessage)
        ELSE Err("", "Failed to connect to SQL Server: " \o errorMessage)

\* the TypeError of reading a property of undefined
TypeError == Err("", "Cannot read properties of undefined (reading 'TABLE_SCHEMA')")

NoResponse == [status |-> 0, body |-> [success |-> FALSE]]

BadRequestResponse ==
    [status |-> 400,
     body |-> [success |-> FALSE,
               error |-> "Missing startDate or endDate parameters. "
                         \o "Use: ?startDate=YYYY-MM-DD&endDate=YYYY-MM-DD"]]

NotFoundResponse ==
    [status |-> 404,
     body |-> [success |-> FALSE,
               error |-> "No Business Written table found in database"]]

\* the catch block of the handler
ErrorResponse(error) ==
    LET m == error.message
        isTLS == m # "" /\ (\/ Includes(m, "TLS") \/ Includes(m, "SSL")
                            \/ Includes(m, "unsupported protocol")
                            \/ Includes(m, "ssl_choose_client_version"))
        mapped ==
            IF error.code = "ELOGIN"
            THEN <<"Login failed. Check username/password.", "AUTHENTICATION_ERROR">>
            ELSE IF error.code = "ETIMEOUT" \/ error.code = "ETIMEDOUT"
            THEN <<"Connection timeout. Server may be down or firewall blocking.",
                   "CONNECTION_TIMEOUT">>
            ELSE IF isTLS
            THEN <<IF Includes(m, "SOLUTION REQUIRED") THEN m
                   ELSE "TLS/SSL Error: Connection failed. Node.js 18 should have "
                        \o "better compatibility, but SQL Server may need "
                        \o "configuration updates.",
                   "TLS_ERROR">>
            ELSE IF m # "" /\ Includes(m, "Invalid object name")
            THEN <<"Table not found. Database structure may have changed.",
                   "TABLE_NOT_FOUND">>
            ELSE <<m, IF error.code # "" THEN error.code ELSE "UNKNOWN">>
    IN  [status |-> 500,
         body |-> [success |-> FALSE, error |-> mapped[1], errorCode |-> mapped[2]]]

\* the 200 response; the rows (count, data) and the timestamp are left out
OkResponse(f) ==
    [status |-> 200,
     body |-> [success |-> TRUE,
               table |-> f.schema \o "." \o f.tableName,
               dateColumn |-> f.dateColumn,
               columns |-> ColumnNames(f.columns),
               query |-> [startDate |-> f.startDate, endDate |-> f.endDate]]]

(***************************************************************************)
(* The catalog queries, the classification, the query text and the error   *)
(* mapping are functions of the database, the request and the error alone: *)
(* each is tabulated once over the values it can be applied to.            *)
(***************************************************************************)
\* the function f with every value computed
Tabulated(f) == f @@ <<>>

TableSearchResultsOf == Tabulated([cat \in Catalogs |-> TableSearchResults(cat)])

Recordsets == {t.COLUMNS : t \in TablePool} \cup {<<>>}

DateColumnOf == Tabulated([recordset \in Recordsets |-> DateColumn(recordset)])

SelectColumnsOf ==
    Tabulated([recordset \in Recordsets |->
        SelectColumns(ColumnNames(recordset), DateColumnOf[recordset])])

\* schema, tableName and column recordset of the tables a request may resolve
QuerySubjects == {<<SchemaOf(t), t.TABLE_NAME, t.COLUMNS>> : t \in TablePool}

DataQueryOf ==
    Tabulated([s \in QuerySubjects, q \in RequestInputs |->
        DataQuery(s[1], s[2], DateColumnOf[s[3]], SelectColumnsOf[s[3]], q[1], q[2])])

ConnectionFailureOf == Tabulated([e \in ConnectErrors |-> ConnectionFailure(e)])

ThrownErrors ==
    QueryErrors \cup {ConnectionFailureOf[e] : e \in ConnectErrors} \cup {TypeError}

ErrorResponseOf == Tabulated([e \in ThrownErrors |-> ErrorResponse(e)])

(***************************************************************************)
(* State.                                                                  *)
(***************************************************************************)
VARIABLES
    catalog,    \* the database's tables and columns
    pool,       \* the cached connection pool: Null or a handle
    handles,    \* the number of pool handles sql.connect has created
    connected,  \* the handles whose .connected is true
    lastError,  \* the module's lastError
    frame,      \* per request: the handler's position and locals
    calls,      \* per request: getConnection calls, connection attempts, queries
    response    \* per request: the response sent

vars == <<catalog, pool, handles, connected, lastError, frame, calls, response>>

Requests == 1..MaxRequests

Null == 0

\* strategies.length
NumStrategies == 3

IdleFrame ==
    [pc |-> "idle", startDate |-> "", endDate |-> "", i |-> 0, connection |-> Null,
     tables |-> <<>>, schema |-> "", tableName |-> "", columns |-> <<>>,
     dateColumn |-> "", selectColumns |-> <<>>,
     query |-> [text |-> "", inputs |-> <<>>], thrownAt |-> ""]

GetConnectionCall == [op |-> "getConnection", what |-> "", text |-> "", inputs |-> <<>>]

ConnectCall(i) == [op |-> "connect", what |-> Decimal(i), text |-> "", inputs |-> <<>>]

QueryCall(what, text, inputs) ==
    [op |-> "query", what |-> what, text |-> text, inputs |-> inputs]

TableSearchCall == QueryCall("tableSearchQuery", "", <<>>)

ColumnsCall(schema, tableName) ==
    QueryCall("columnsQuery", "",
              <<Input("schema", "VarChar", schema), Input("table", "VarChar", tableName)>>)

InitWith(cats, n) ==
    /\ catalog \in cats
    /\ pool = Null
    /\ handles = 0
    /\ connected = {}
    /\ lastError = NoError
    /\ frame = [r \in Requests |-> [IdleFrame EXCEPT !.pc = IF r <= n THEN "idle" ELSE "off"]]
    /\ calls = [r \in Requests |-> <<>>]
    /\ response = [r \in Requests |-> NoResponse]

Init == InitWith(CoreCatalogs, MaxRequests)

(***************************************************************************)
(* getConnection and the handler of GET /api/data.  An action is the code  *)
(* that runs between two awaits.                                           *)
(***************************************************************************)
\* variant: only startDate is validated
ParamsMissingStartOnly(startDate, endDate) == startDate = ""

\* !startDate || !endDate
ParamsMissing(startDate, endDate) == startDate = "" \/ endDate = ""

\* variant: the cached pool is reused without looking at .connected
PoolHealthyUnchecked(p, conn) == p # Null

\* pool && pool.connected
PoolHealthy(p, conn) == p # Null /\ p \in conn

\* variant: a length test that no recordset meets
NoTableFoundNever(recordset) == Len(recordset) < 0

\* tablesResult.recordset.length === 0
NoTableFound(recordset) == Len(recordset) = 0

\* request r arrives (the requests are numbered in the order they arrive):
\* validation, then getConnection up to its first await,
\* and, when the cached pool is returned, the table search is issued
Arrive(r, startDate, endDate) ==
    /\ frame[r].pc = "idle"
    /\ \A earlier \in 1..(r - 1) : frame[earlier].pc # "idle"
    /\ UNCHANGED <<catalog, pool, handles, connected, lastError>>
    /\ IF ParamsMissing(startDate, endDate)
       THEN /\ frame' = [frame EXCEPT ![r] = [@ EXCEPT !.pc = "done",
                            !.startDate = startDate, !.endDate = endDate]]
            /\ response' = [response EXCEPT ![r] = BadRequestResponse]
            /\ UNCHANGED calls
       ELSE IF PoolHealthy(pool, connected)
       THEN /\ frame' = [frame EXCEPT ![r] = [@ EXCEPT !.pc = "tables",
                            !.startDate = startDate, !.endDate = endDate,
                            !.connection = pool]]
            /\ calls' = [calls EXCEPT ![r] = @ \o <<GetConnectionCall, TableSearchCall>>]
            /\ UNCHANGED response
       ELSE /\ frame' = [frame EXCEPT ![r] = [@ EXCEPT !.pc = "connecting",
                            !.startDate = startDate, !.endDate = endDate, !.i = 1]]
            /\ calls' = [calls EXCEPT ![r] = @ \o <<GetConnectionCall, ConnectCall(1)>>]
            /\ UNCHANGED response

\* sql.connect resolves with handle h (a new pool, or the driver's connected
\* global pool): it is cached and returned, and the table search is issued
ConnectOk(r, h) ==
    /\ frame[r].pc = "connecting"
    /\ h \in connected \cup {handles + 1}
    /\ handles' = IF h > handles THEN h ELSE handles
    /\ connected' = connected \cup {h}
    /\ pool' = h
    /\ frame' = [frame EXCEPT ![r] = [@ EXCEPT !.pc = "tables", !.connection = h]]
    /\ calls' = [calls EXCEPT ![r] = Append(@, TableSearchCall)]
    /\ UNCHANGED <<catalog, lastError, response>>

\* sql.connect rejects: the catch of the strategy loop, then the next strategy,
\* or, after the last one, the throw and the handler's catch block
ConnectFail(r, e) ==
    /\ frame[r].pc = "connecting"
    /\ lastError' = e
    /\ pool' = Null
    /\ UNCHANGED <<catalog, handles, connected>>
    /\ IF frame[r].i < NumStrategies
       THEN /\ frame' = [frame EXCEPT ![r] = [@ EXCEPT !.i = @ + 1]]
            /\ calls' = [calls EXCEPT ![r] = Append(@, ConnectCall(frame[r].i + 1))]
            /\ UNCHANGED response
       ELSE /\ frame' = [frame EXCEPT ![r] = [@ EXCEPT !.pc = "done",
                            !.thrownAt = "getConnection"]]
            /\ response' = [response EXCEPT ![r] = ErrorResponseOf[ConnectionFailureOf[e]]]
            /\ UNCHANGED calls

\* the table search returns its recordset: 404, or the first row is the table
\* and the column query is issued
TablesOk(r) ==
    /\ frame[r].pc = "tables"
    /\ UNCHANGED <<catalog, pool, handles, connected, lastError>>
    /\ \E rs \in TableSearchResultsOf[catalog] :
        IF NoTableFound(rs)
        THEN /\ frame' = [frame EXCEPT ![r] = [@ EXCEPT !.pc = "done", !.tables = rs]]
             /\ response' = [response EXCEPT ![r] = NotFoundResponse]
             /\ UNCHANGED calls
        ELSE IF Len(rs) = 0
        THEN /\ frame' = [frame EXCEPT ![r] = [@ EXCEPT !.pc = "done", !.tables = rs,
                             !.thrownAt = "tableInfo"]]
             /\ response' = [response EXCEPT ![r] = ErrorResponseOf[TypeError]]
             /\ UNCHANGED calls
        ELSE /\ frame' = [frame EXCEPT ![r] = [@ EXCEPT !.pc = "columns", !.tables = rs,
                             !.schema = SchemaOf(rs[1]),
                             !.tableName = rs[1].TABLE_NAME]]
             /\ calls' = [calls EXCEPT ![r] =
                             Append(@, ColumnsCall(SchemaOf(rs[1]), rs[1].TABLE_NAME))]
             /\ UNCHANGED response

\* the column query returns: the date column, the projection and the query
\* are computed and the data query is issued
ColumnsOk(r) ==
    /\ frame[r].pc = "columns"
    /\ UNCHANGED <<catalog, pool, handles, connected, lastError, response>>
    /\ LET recordset == ColumnsRecordset(catalog, frame[r].schema, frame[r].tableName)
           dateColumn == DateColumnOf[recordset]
           selectColumns == SelectColumnsOf[recordset]
           query == DataQueryOf[<<frame[r].schema, frame[r].tableName, recordset>>,
                                <<frame[r].startDate, frame[r].endDate>>]
       IN  /\ frame' = [frame EXCEPT ![r] = [@ EXCEPT !.pc = "data",
                            !.columns = recordset, !.dateColumn = dateColumn,
                            !.selectColumns = selectColumns, !.query = query]]
           /\ calls' = [calls EXCEPT ![r] =
                            Append(@, QueryCall("dataQuery", query.text, query.inputs))]

\* the data query returns its rows: the 200 response
DataOk(r) ==
    /\ frame[r].pc = "data"
    /\ frame' = [frame EXCEPT ![r] = [@ EXCEPT !.pc = "done"]]
    /\ response' = [response EXCEPT ![r] = OkResponse(frame[r])]
    /\ UNCHANGED <<catalog, pool, handles, connected, lastError, calls>>

\* a query rejects: the handler's catch block
QueryFail(r, e) ==
    /\ frame[r].pc \in {"tables", "columns", "data"}
    /\ frame' = [frame EXCEPT ![r] = [@ EXCEPT !.pc = "done", !.thrownAt = frame[r].pc]]
    /\ response' = [response EXCEPT ![r] = ErrorResponseOf[e]]
    /\ UNCHANGED <<catalog, pool, handles, connected, lastError, calls>>

\* a pool loses its connection (network failure, server restart)
Disconnect(h) ==
    /\ h \in connected
    /\ connected' = connected \ {h}
    /\ UNCHANGED <<catalog, pool, handles, lastError, frame, calls, response>>

Next ==
    \/ \E r \in Requests, q \in RequestInputs : Arrive(r, q[1], q[2])
    \/ \E r \in Requests, h \in 1..MaxRequests : ConnectOk(r, h)
    \/ \E r \in Requests, e \in ConnectErrors : ConnectFail(r, e)
    \/ \E r \in Requests : TablesOk(r)
    \/ \E r \in Requests : ColumnsOk(r)
    \/ \E r \in Requests : DataOk(r)
    \/ \E r \in Requests, e \in QueryErrors : QueryFail(r, e)
    \/ \E h \in 1..MaxRequests : Disconnect(h)

Spec == Init /\ [][Next]_vars

\* one request at a time, against every database of the pool
SpecSingle == InitWith(Catalogs, 1) /\ [][Next]_vars

(***************************************************************************)
(* Properties.                                                             *)
(***************************************************************************)
Arrived(r) == frame[r].pc \notin {"idle", "off"}

Issued(r, what) == \E k \in 1..Len(calls[r]) : calls[r][k].what = what

\* the table search of request r has returned its recordset
TableSearchReturned(r) ==
    /\ Issued(r, "tableSearchQuery")
    /\ frame[r].pc # "tables"
    /\ frame[r].thrownAt # "tables"

\* C1: a request whose startDate or endDate is missing or empty is answered
\* 400 with success = false, and has made no getConnection call, started no
\* connection attempt and issued no query.
C1_MissingParamsNoDatabase ==
    \A r \in Requests :
        Arrived(r) /\ (frame[r].startDate = "" \/ frame[r].endDate = "")
        => /\ response[r].status = 400
           /\ response[r].body.success = FALSE
           /\ calls[r] = <<>>
           /\ frame[r].pc = "done"

\* a request without endDate was answered 400 while a connected pool is cached
C1_Witness ==
    \E r \in Requests :
        /\ frame[r].startDate # "" /\ frame[r].endDate = ""
        /\ response[r].status = 400
        /\ pool # Null /\ pool \in connected

\* C2: when the table search returns an empty recordset the request is
\* answered 404 with success = false and has issued neither the column query
\* nor the data query; and a 404 is sent only after an empty recordset.
C2_EmptyDiscoveryIs404 ==
    \A r \in Requests :
        /\ TableSearchReturned(r) /\ frame[r].tables = <<>>
           => /\ response[r].status = 404
              /\ response[r].body.success = FALSE
              /\ frame[r].pc = "done"
              /\ ~Issued(r, "columnsQuery")
              /\ ~Issued(r, "dataQuery")
        /\ response[r].status = 404
           => /\ TableSearchReturned(r)
              /\ frame[r].tables = <<>>
              /\ frame[r].connection # Null

\* a 404 was sent for a database that has tables, none of them a candidate
C2_Witness ==
    \E r \in Requests :
        /\ response[r].status = 404
        /\ catalog # {}
        /\ frame[r].startDate # "" /\ frame[r].endDate # ""
\* the table names of the pool that match a "business written" pattern
BusinessWrittenNames ==
    {t.TABLE_NAME : t \in {x \in TablePool : Like(x.TABLE_NAME, "%Business%Written%")}}

\* C3: when the database has a table whose name matches a "business written"
\* pattern, the table the handler uses (the first row of the recordset) is
\* such a table, whatever the alphabetical order of the names.
C3_BusinessWrittenFirst ==
    \A r \in Requests :
        /\ frame[r].tableName # ""
        /\ \E t \in catalog : t.TABLE_NAME \in BusinessWrittenNames
        => /\ frame[r].tableName \in BusinessWrittenNames
           /\ frame[r].tableName = frame[r].tables[1].TABLE_NAME

\* BusinessWritten was chosen over AutoLoan, a generic match that sorts first
C3_Witness ==
    \E r \in Requests :
        /\ frame[r].tableName = "BusinessWritten"
        /\ Len(frame[r].tables) = 2
        /\ frame[r].tables[2].TABLE_NAME = "AutoLoan"

\* the data query of request r has been built and issued
QueryBuilt(r) == frame[r].query.text # ""

\* the text before the first column, the filter and the two orderings
TopClause == "SELECT TOP 1000 ["

FilterClause(dc) == "WHERE [" \o dc \o "] BETWEEN @startDate AND @endDate"

DescendingClause(dc) == "ORDER BY [" \o dc \o "] DESC"

StartsWith(s, p) == Len(s) >= Len(p) /\ SubSeq(s, 1, Len(p)) = p

EndsWith(s, p) == Len(s) >= Len(p) /\ SubSeq(s, Len(s) - Len(p) + 1, Len(s)) = p

\* C4: with a date column the query is the range-filtered form, ordered by
\* that column descending, and exactly startDate and endDate are bound; with
\* none the query has no WHERE clause and nothing is bound.  Both forms are
\* capped at TOP 1000, the request's dates are not in the text, and that text
\* with those inputs is what is sent to the database.
C4_QueryForms ==
    \A r \in Requests :
        QueryBuilt(r) =>
        LET q == frame[r].query
            dc == frame[r].dateColumn
        IN  /\ StartsWith(q.text, TopClause)
            /\ ~Includes(q.text, frame[r].startDate)
            /\ ~Includes(q.text, frame[r].endDate)
            /\ calls[r][Len(calls[r])] = QueryCall("dataQuery", q.text, q.inputs)
            /\ IF dc # ""
               THEN /\ Includes(q.text, FilterClause(dc))
                    /\ EndsWith(q.text, DescendingClause(dc))
                    /\ q.inputs = <<Input("startDate", "Date", frame[r].startDate),
                                    Input("endDate", "Date", frame[r].endDate)>>
               ELSE /\ ~Includes(q.text, "WHERE")
                    /\ ~Includes(q.text, "@")
                    /\ q.inputs = <<>>

\* both forms were built: one request filters by WrittenDate, the witness
\* names the one that has no date column
C4_Witness ==
    \E r \in Requests :
        /\ QueryBuilt(r)
        /\ frame[r].dateColumn = ""
        /\ frame[r].tableName = "Accounts"
        /\ frame[r].query.inputs = <<>>
\* the error taxonomy of the errorCode field
ErrorCodes ==
    {"AUTHENTICATION_ERROR", "CONNECTION_TIMEOUT", "TLS_ERROR", "TABLE_NOT_FOUND", "UNKNOWN"}

\* C5: every response carries a success boolean, and every failure response
\* carries an errorCode of the taxonomy.
C5_FailureHasErrorCode ==
    \A r \in Requests :
        response[r].status # 0
        => /\ "success" \in DOMAIN response[r].body
           /\ response[r].body.success \in BOOLEAN
           /\ response[r].body.success = FALSE
              => /\ "errorCode" \in DOMAIN response[r].body
                 /\ response[r].body.errorCode \in ErrorCodes

\* the getConnection part of a request's calls: the call itself, then the
\* connection attempts 1..n in the order of the strategies
ConnectionCalls(n) == <<GetConnectionCall>> \o [k \in 1..n |-> ConnectCall(k)]

IsQuery(c) == c.op = "query"

\* what a step of request r that calls getConnection must do
GetConnectionStep(r) ==
    frame[r].pc = "idle" /\ calls'[r] # <<>>
    => IF pool # Null /\ pool \in connected
       THEN /\ frame'[r].connection = pool
            /\ pool' = pool
            /\ frame'[r].i = 0
            /\ calls'[r][1] = GetConnectionCall
            /\ \A k \in 1..Len(calls'[r]) : calls'[r][k].op # "connect"
       ELSE /\ frame'[r].connection = Null
            /\ calls'[r] = ConnectionCalls(1)

\* what a step of request r that ends a connection attempt must do
AttemptStep(r) ==
    frame[r].pc = "connecting" /\ frame'[r] # frame[r]
    => \/ /\ frame'[r].connection # Null
          /\ frame'[r].connection \in connected'
          /\ pool' = frame'[r].connection
          /\ frame'[r].i = frame[r].i
          /\ calls'[r] = Append(calls[r], TableSearchCall)
       \/ /\ frame[r].i < NumStrategies
          /\ pool' = Null
          /\ frame'[r].connection = Null
          /\ frame'[r].pc = "connecting"
          /\ calls'[r] = ConnectionCalls(frame[r].i + 1)
       \/ /\ frame[r].i = NumStrategies
          /\ pool' = Null
          /\ frame'[r].connection = Null
          /\ frame'[r].pc = "done"
          /\ response'[r].status = 500
          /\ calls'[r] = ConnectionCalls(NumStrategies)

\* in every state: the attempts of a request are strategies 1..i in order, at
\* most three; queries come only after getConnection has returned a handle
ConnectionPolicy ==
    \A r \in Requests :
        /\ calls[r] # <<>>
           => /\ frame[r].i \in 0..NumStrategies
              /\ SubSeq(calls[r], 1, frame[r].i + 1) = ConnectionCalls(frame[r].i)
              /\ \A k \in (frame[r].i + 2)..Len(calls[r]) : IsQuery(calls[r][k])
              /\ (Len(calls[r]) > frame[r].i + 1) = (frame[r].connection # Null)
        /\ frame[r].thrownAt = "getConnection"
           => /\ frame[r].i = NumStrategies
              /\ frame[r].connection = Null
              /\ response[r].status = 500

\* C6: a getConnection call that finds the cached pool connected returns it and
\* starts no attempt; otherwise the strategies are tried in order up to the
\* first success, whose handle is cached and returned before any query; when
\* all three fail the cache is left null, the request issues no query and gets
\* its 500.
C6_ConnectOnceReuse ==
    /\ []ConnectionPolicy
    /\ [][\A r \in Requests : GetConnectionStep(r) /\ AttemptStep(r)]_vars

\* one request connected with the second strategy, the next reused its handle
C6_Witness ==
    \E a, b \in Requests :
        /\ frame[a].i = 2
        /\ frame[a].connection # Null
        /\ frame[b].i = 0
        /\ frame[b].connection = frame[a].connection
\* the candidate rule as C7 states it: the name contains a "business written"
\* variant or one of five keywords, or three columns, not necessarily the
\* same one, are loan-id-like, client-id-like and premium-or-commission-like
ClaimedCandidate(t) ==
    \/ Like(t.TABLE_NAME, "%Business%Written%")
    \/ \E k \in {"loan", "policy", "transaction", "premium", "commission"} :
          Includes(ToLower(t.TABLE_NAME), k)
    \/ /\ \E i \in 1..Len(t.COLUMNS) : LoanIdLike(t.COLUMNS[i].COLUMN_NAME)
       /\ \E i \in 1..Len(t.COLUMNS) : ClientIdLike(t.COLUMNS[i].COLUMN_NAME)
       /\ \E i \in 1..Len(t.COLUMNS) : PremiumLike(t.COLUMNS[i].COLUMN_NAME)

ClaimedCandidates == {t : t \in {x \in TablePool : ClaimedCandidate(x)}}

\* C7: the recordset of the table search holds exactly the tables of the
\* database that the candidate rule names.
C7_CandidateSet ==
    \A r \in Requests :
        TableSearchReturned(r)
        => Range(frame[r].tables) =
              {[TABLE_SCHEMA |-> t.TABLE_SCHEMA, TABLE_NAME |-> t.TABLE_NAME] :
                  t \in catalog \cap ClaimedCandidates}

\* the column recordset of request r has arrived and was classified
ColumnsClassified(r) == frame[r].columns # <<>>

NamedLikeDate(n) ==
    \E k \in {"date", "written", "created", "time"} : Includes(ToLower(n), k)

NamesWhere(recordset, types) ==
    {recordset[i].COLUMN_NAME : i \in {j \in 1..Len(recordset) :
        \E ty \in types : Includes(recordset[j].DATA_TYPE, ty)}}

\* the date column as C8 states it: by name, else the first column whose type
\* contains "date" or "time"
ClaimedDateColumn(recordset) ==
    LET columns == ColumnNames(recordset)
        named == {c \in Range(columns) : NamedLikeDate(c)}
    IN  IF named # {} THEN Find(columns, named)
        ELSE Find(columns, NamesWhere(recordset, {"date", "time"}))

\* the date column, amended: by name, else the first column whose type
\* contains "date", else the first column whose type contains "time"
AmendedDateColumn(recordset) ==
    LET columns == ColumnNames(recordset)
        named == {c \in Range(columns) : NamedLikeDate(c)}
    IN  IF named # {} THEN Find(columns, named)
        ELSE IF NamesWhere(recordset, {"date"}) # {}
        THEN Find(columns, NamesWhere(recordset, {"date"}))
        ELSE Find(columns, NamesWhere(recordset, {"time"}))

ClaimedDateColumnOf == Tabulated([rs \in Recordsets |-> ClaimedDateColumn(rs)])

AmendedDateColumnOf == Tabulated([rs \in Recordsets |-> AmendedDateColumn(rs)])

\* C8 as stated: the date column is the first column named like a date, else
\* the first column whose type contains "date" or "time", else none.
C8_DateColumnAsStated ==
    \A r \in Requests :
        ColumnsClassified(r) => frame[r].dateColumn = ClaimedDateColumnOf[frame[r].columns]

\* C8, amended: the date column is the first column named like a date, else the
\* first column whose type contains "date", else the first column whose type
\* contains "time", else none; with none the request goes on to the
\* unfiltered query.
C8_DateColumn ==
    \A r \in Requests :
        ColumnsClassified(r)
        => /\ frame[r].dateColumn = AmendedDateColumnOf[frame[r].columns]
           /\ QueryBuilt(r)
           /\ Issued(r, "dataQuery")
           /\ frame[r].thrownAt \in {"", "data"}
           /\ frame[r].dateColumn = ""
              => /\ frame[r].query.inputs = <<>>
                 /\ EndsWith(frame[r].query.text, "ORDER BY (SELECT NULL)")

\* AutoLoan (Id int, Opened time, Closed date): the date-typed column is taken,
\* not the time-typed one before it
C8_Witness ==
    \E r \in Requests :
        /\ ColumnsClassified(r)
        /\ frame[r].tableName = "AutoLoan"
        /\ frame[r].columns[2].DATA_TYPE = "time"
        /\ frame[r].dateColumn = "Closed"

\* C9: the projection has at most 50 columns, no column twice, only columns of
\* the table, and the date column, when there is one, first.
C9_Projection ==
    \A r \in Requests :
        ColumnsClassified(r) =>
        LET sel == frame[r].selectColumns
        IN  /\ Len(sel) <= 50
            /\ \A i, j \in 1..Len(sel) : i # j => sel[i] # sel[j]
            /\ Range(sel) \subseteq {frame[r].columns[i].COLUMN_NAME :
                                        i \in 1..Len(frame[r].columns)}
            /\ frame[r].dateColumn # ""
               => Len(sel) >= 1 /\ sel[1] = frame[r].dateColumn

\* a table of more than 50 columns whose date column is its last one
C9_Witness ==
    \E r \in Requests :
        /\ ColumnsClassified(r)
        /\ Len(frame[r].columns) > 50
        /\ frame[r].dateColumn = frame[r].columns[Len(frame[r].columns)].COLUMN_NAME
        /\ Len(frame[r].selectColumns) = 50
        /\ frame[r].selectColumns[1] = frame[r].dateColumn

RECURSIVE Lex(_, _, _, _)
\* the bracket-delimited identifiers T-SQL reads in s from position i on:
\* inside brackets ]] is the character ] and a single ] ends the identifier
Lex(s, i, inside, cur) ==
    IF i > Len(s) THEN <<>>
    ELSE IF ~inside
    THEN Lex(s, i + 1, CharAt(s, i) = "[", "")
    ELSE IF CharAt(s, i) # "]" THEN Lex(s, i + 1, TRUE, cur \o CharAt(s, i))
    ELSE IF CharAt(s, i + 1) = "]" THEN Lex(s, i + 2, TRUE, cur \o "]")
    ELSE <<cur>> \o Lex(s, i + 1, FALSE, "")

DelimitedIdentifiers(s) == Lex(s, 1, FALSE, "")

QueryTexts == {DataQueryOf[k].text : k \in DOMAIN DataQueryOf}

DelimitedIdentifiersOf == Tabulated([s \in QueryTexts |-> DelimitedIdentifiers(s)])

\* C10: the bracket-quoted identifiers of the query text denote exactly the
\* discovered names: the projected columns, the schema, the table and, in the
\* filtered form, the date column twice.
C10_IdentifiersDenoteNames ==
    \A r \in Requests :
        QueryBuilt(r)
        => DelimitedIdentifiersOf[frame[r].query.text] =
              frame[r].selectColumns
              \o <<frame[r].schema, frame[r].tableName>>
              \o (IF frame[r].dateColumn # ""
                  THEN <<frame[r].dateColumn, frame[r].dateColumn>> ELSE <<>>)


\* a step does not empty the cache when it holds a handle that is connected
\* before and after the step
CacheKept ==
    PoolHealthy(pool, connected) /\ pool \in connected' => pool' # Null

\* C11: with overlapping getConnection calls, once a connected handle is in the
\* cache, no step of another call, such as the catch of a failed strategy
\* attempt, overwrites the cache with null while that handle stays connected.
C11_CacheNotOverwritten == [][CacheKept]_vars

=============================================================================
